---- MODULE Spec2Model ----
(***************************************************************************)
(* Model of px/config.py: the layered configuration resolver               *)
(* (State.parse_config and the cfg_*_init initializers), the derived       *)
(* setting propagation, State.save, and the proxy refresh throttle         *)
(* (State.reload_proxy).                                                   *)
(*                                                                         *)
(* Python strings are sequences of one-character strings, so that strip(), *)
(* int(), float() and str() are computed character by character.           *)
(***************************************************************************)
EXTENDS Integers, Sequences, FiniteSets, TLC

(***************************************************************************)
(* Python values                                                           *)
(***************************************************************************)

\* None, as a value that can stand where a string is expected: its single
\* element is not a character, so it equals no string.
None == <<"None">>

Digits == <<"0", "1", "2", "3", "4", "5", "6", "7", "8", "9">>

DigitSet == {Digits[i] : i \in 1..Len(Digits)}

DigitVal(c) == (CHOOSE i \in 1..Len(Digits) : Digits[i] = c) - 1

RECURSIVE lstrip(_)
lstrip(s) == IF s # <<>> /\ Head(s) = " " THEN lstrip(Tail(s)) ELSE s

RECURSIVE rstrip(_)
rstrip(s) == IF s # <<>> /\ s[Len(s)] = " " THEN rstrip(SubSeq(s, 1, Len(s) - 1)) ELSE s

\* str.strip()
strip(s) == rstrip(lstrip(s))

\* str.startswith(prefix)
startswith(s, prefix) == Len(s) >= Len(prefix) /\ SubSeq(s, 1, Len(prefix)) = prefix

is_digits(s) == s # <<>> /\ \A i \in 1..Len(s) : s[i] \in DigitSet

RECURSIVE digits_val(_)
digits_val(s) ==
    IF s = <<>> THEN 0
    ELSE 10 * digits_val(SubSeq(s, 1, Len(s) - 1)) + DigitVal(s[Len(s)])

unsigned(s) == IF s # <<>> /\ Head(s) \in {"+", "-"} THEN Tail(s) ELSE s

is_negative(s) == s # <<>> /\ Head(s) = "-"

\* int(val) raises ValueError unless val is, after stripping, an optional
\* sign followed by decimal digits.
int_ok(s) == is_digits(unsigned(strip(s)))

int_val(s) ==
    LET t == strip(s)
    IN  IF is_negative(t) THEN 0 - digits_val(unsigned(t)) ELSE digits_val(unsigned(t))

RECURSIVE nat_str(_)
nat_str(n) ==
    IF n < 10 THEN <<Digits[n + 1]>>
    ELSE Append(nat_str(n \div 10), Digits[(n % 10) + 1])

\* str(n) of an int
int_str(n) == IF n < 0 THEN <<"-">> \o nat_str(0 - n) ELSE nat_str(n)

\* The position of the first c in s, or 0.
find(s, c) ==
    IF \E i \in 1..Len(s) : s[i] = c
    THEN CHOOSE i \in 1..Len(s) : s[i] = c /\ \A j \in 1..(i - 1) : s[j] # c
    ELSE 0

dot_pos(s) == find(s, ".")

\* str.split(c)
RECURSIVE split(_, _)
split(s, c) ==
    IF find(s, c) = 0 THEN <<s>>
    ELSE <<SubSeq(s, 1, find(s, c) - 1)>> \o split(SubSeq(s, find(s, c) + 1, Len(s)), c)

float_int_part(s) ==
    LET u == unsigned(strip(s))
    IN  IF dot_pos(u) = 0 THEN u ELSE SubSeq(u, 1, dot_pos(u) - 1)

float_frac_part(s) ==
    LET u == unsigned(strip(s))
    IN  IF dot_pos(u) = 0 THEN <<>> ELSE SubSeq(u, dot_pos(u) + 1, Len(u))

all_digits(s) == \A i \in 1..Len(s) : s[i] \in DigitSet

\* float(val) for plain decimal literals: optional sign, digits, optional
\* "." and digits, at least one digit in all.  Anything else raises
\* ValueError (exponents, inf and nan are outside the modelled alphabet).
float_ok(s) ==
    /\ all_digits(float_int_part(s))
    /\ all_digits(float_frac_part(s))
    /\ Len(float_int_part(s)) + Len(float_frac_part(s)) > 0

RECURSIVE strip_zeros(_)
strip_zeros(s) ==
    IF s # <<>> /\ s[Len(s)] = "0" THEN strip_zeros(SubSeq(s, 1, Len(s) - 1)) ELSE s

\* Typed values handed to the callbacks: an int, a float (sign, integer
\* part and fraction digits without trailing zeros) or a str.
IntV(n) == [t |-> "int", n |-> n, neg |-> FALSE, s |-> <<>>]

FloatV(neg, n, frac) == [t |-> "float", n |-> n, neg |-> neg, s |-> frac]

StrV(s) == [t |-> "str", n |-> 0, neg |-> FALSE, s |-> s]

float_val(s) ==
    FloatV(is_negative(strip(s)), digits_val(float_int_part(s)),
           strip_zeros(float_frac_part(s)))

\* str(val): repr of an int or of a float with a short decimal expansion
\* ("20.0", "2.5"); a str is returned as it is.
str(v) ==
    CASE v.t = "int" -> int_str(v.n)
      [] v.t = "float" ->
            (IF v.neg THEN <<"-">> ELSE <<>>) \o nat_str(v.n) \o <<".">>
                \o (IF v.s = <<>> THEN <<"0">> ELSE v.s)
      [] OTHER -> v.s

(***************************************************************************)
(* String literals of the program                                          *)
(***************************************************************************)

S_utf8 == <<"u", "t", "f", "-", "8">>

S_3128 == <<"3", "1", "2", "8">>

S_loopback == <<"1", "2", "7", ".", "0", ".", "0", ".", "1">>

S_allow_glob == <<"*", ".", "*", ".", "*", ".", "*">>

S_allow_cidr == <<"0", ".", "0", ".", "0", ".", "0", "/", "0">>

S_http == <<"h", "t", "t", "p">>

S_file == <<"f", "i", "l", "e">>

S_ANY == <<"A", "N", "Y">>

\* Debug log locations
LOG_NONE == 0

LOG_SCRIPTDIR == 1

LOG_CWD == 2

LOG_UNIQLOG == 3

LOG_STDOUT == 4

\* A faulty variant: the table with another default port.
DEFAULTS_other_port ==
    << <<"server", <<>>>>, <<"pac", <<>>>>, <<"pac_encoding", S_utf8>>,
       <<"port", <<"8", "0", "8", "0">>>>, <<"listen", S_loopback>>,
       <<"gateway", <<"0">>>>, <<"hostonly", <<"0">>>>, <<"allow", S_allow_glob>>,
       <<"noproxy", <<>>>>, <<"useragent", <<>>>>, <<"username", <<>>>>,
       <<"auth", <<>>>>, <<"workers", <<"2">>>>, <<"threads", <<"3", "2">>>>,
       <<"idle", <<"3", "0">>>>, <<"socktimeout", <<"2", "0", ".", "0">>>>,
       <<"proxyreload", <<"6", "0">>>>, <<"foreground", <<"0">>>>,
       <<"log", <<"0">>>>, <<"test", None>> >>

\* Default values for all keys, in declaration order.
DEFAULTS ==
    << <<"server", <<>>>>,
       <<"pac", <<>>>>,
       <<"pac_encoding", S_utf8>>,
       <<"port", S_3128>>,
       <<"listen", S_loopback>>,
       <<"gateway", <<"0">>>>,
       <<"hostonly", <<"0">>>>,
       <<"allow", S_allow_glob>>,
       <<"noproxy", <<>>>>,
       <<"useragent", <<>>>>,
       <<"username", <<>>>>,
       <<"auth", <<>>>>,
       <<"workers", <<"2">>>>,
       <<"threads", <<"3", "2">>>>,
       <<"idle", <<"3", "0">>>>,
       <<"socktimeout", <<"2", "0", ".", "0">>>>,
       <<"proxyreload", <<"6", "0">>>>,
       <<"foreground", <<"0">>>>,
       <<"log", <<"0">>>>,
       <<"test", None>> >>

\* The keys cfg_init routes to the [proxy] section, as strings and as ints.
ProxyStrKeys ==
    {"server", "pac", "pac_encoding", "listen", "allow", "noproxy",
     "useragent", "username", "auth"}

ProxyIntKeys == {"port", "gateway", "hostonly"}

\* The keys cfg_init routes to the [settings] section.
SettingsIntKeys == {"workers", "threads", "idle", "proxyreload", "foreground", "log"}

SettingsFloatKeys == {"socktimeout"}

\* The keys held in the canonical store: every key of DEFAULTS but "test".
ConfigKeys == ProxyStrKeys \cup ProxyIntKeys \cup SettingsIntKeys \cup SettingsFloatKeys

SectionOf(name) == IF name \in ProxyStrKeys \cup ProxyIntKeys THEN "proxy" ELSE "settings"

(***************************************************************************)
(* The program's state                                                     *)
(***************************************************************************)
VARIABLES
    state,      \* the State singleton of the running process
    pc,         \* where the process is: parse_config's position, or "exited"
    sys_argv,   \* sys.argv: the flags, each [name, eq, val] for --name[=val]
    environ,    \* os.environ: the PX_* variables, as <<key, value>> pairs
                \* keyed by the variable's name without prefix, lower-cased
    inifile,    \* px.ini on disk: whether it exists, and its text by section
    files,      \* the local paths that exist (os.path.exists)
    run,        \* 1: the first process; 2: the process started on the saved file
    clock,      \* the wall clock read by time.time()
    state_lock, \* State.state_lock: the thread holding it, or 0
    tpc,        \* each thread's position in reload_proxy
    reloads,    \* the number of Wproxy objects reload_proxy has built
    procs,      \* the processes of the OS, by pid: parent, whether the
                \* process is an instance of px, whether it is running
    quit_call   \* the call of quit() in progress: its arguments, its loop
                \* and its result

vars ==
    <<state, pc, sys_argv, environ, inifile, files, run, clock, state_lock, tpc, reloads,
      procs, quit_call>>

\* A map with no key.
EmptyMap == [k \in {} |-> <<>>]

\* proxy_last_reload = None
NoTime == 0 - 1

\* wproxy = None
NoWproxy == [mode |-> "None", id |-> 0]

\* The class attributes of State: the singleton as State() leaves it.
\* listen is None until set_listen runs in the defaults pass.
State0 ==
    [ gateway |-> FALSE,
      hostonly |-> FALSE,
      ini |-> <<>>,
      idle |-> IntV(30),
      listen |-> <<None>>,
      noproxy |-> <<>>,
      pac |-> <<>>,
      proxyreload |-> IntV(60),
      socktimeout |-> FloatV(FALSE, 20, <<>>),
      useragent |-> <<>>,
      auth |-> S_ANY,
      username |-> <<>>,
      allow |-> {S_allow_glob},
      config |-> [proxy |-> EmptyMap, settings |-> EmptyMap],
      debug |-> "None",
      location |-> LOG_NONE,
      wproxy |-> NoWproxy,
      proxy_last_reload |-> NoTime,
      test |-> None ]

\* A process: its State and whether it still runs ("run"), has called
\* sys.exit() ("exit") or has died of an uncaught exception ("raise").
Process(st) == [st |-> st, exit |-> "run"]

(***************************************************************************)
(* Collaborators outside config.py                                         *)
(***************************************************************************)

\* get_script_dir(): the install directory.
ScriptDir == <<"/", "d">>

\* os.path.join(get_script_dir(), pac) for a relative pac
join(dir, name) == dir \o <<"/">> \o name

\* os.path.isabs
isabs(path) == startswith(path, <<"/">>)

\* The non-empty trimmed entries of a comma-separated list.
RECURSIVE entries(_)
entries(parts) ==
    IF parts = <<>> THEN <<>>
    ELSE (IF strip(Head(parts)) = <<>> THEN <<>> ELSE <<strip(Head(parts))>>)
            \o entries(Tail(parts))

\* wproxy.parse_noproxy(allow, iponly = True): the rule-set of an allow list.
parse_noproxy(allow) ==
    LET es == entries(split(allow, ",")) IN {es[i] : i \in 1..Len(es)}

\* wproxy.parse_proxy(server): the list of configured servers.
parse_proxy(server) == entries(split(server, ","))

\* mcurl.getauth(auth) knows the scheme.
AuthSchemes == {S_ANY, <<"N", "T", "L", "M">>, <<"N", "O", "N", "E">>}

\* The modes of a proxy source: the two built from the configuration, and
\* MODE_AUTO for whatever mode Wproxy() given no mode finds by asking the OS.
MODE_CONFIG == "MODE_CONFIG"

MODE_CONFIG_PAC == "MODE_CONFIG_PAC"

MODE_AUTO == "MODE_AUTO"

\* wproxy.Wproxy(mode, ...): a new proxy source object; id tells the objects
\* of one process apart.
Wproxy(mode, id) == [mode |-> mode, id |-> id]

(***************************************************************************)
(* Setters of State.  Each takes the process and returns it changed.       *)
(***************************************************************************)

\* urllib.parse.urlparse(file_url): what follows "file:", its netloc (the
\* text between "//" and the next "/") and its path.
url_body(u) == IF startswith(u, S_file \o <<":">>) THEN SubSeq(u, 6, Len(u)) ELSE u

url_after(u) == SubSeq(url_body(u), 3, Len(url_body(u)))

url_netloc(u) ==
    IF ~startswith(url_body(u), <<"/", "/">>) THEN <<>>
    ELSE IF find(url_after(u), "/") = 0 THEN url_after(u)
    ELSE SubSeq(url_after(u), 1, find(url_after(u), "/") - 1)

url_path(u) ==
    IF ~startswith(url_body(u), <<"/", "/">>) THEN url_body(u)
    ELSE IF find(url_after(u), "/") = 0 THEN <<>>
    ELSE SubSeq(url_after(u), find(url_after(u), "/"), Len(url_after(u)))

file_url_to_local_path(file_url) ==
    LET netloc == url_netloc(file_url)
        path == url_path(file_url)
    IN  IF startswith(path, <<"/">>) /\ ~startswith(path, <<"/", "/">>)
        THEN IF Len(netloc) = 2 /\ netloc[2] = ":" THEN netloc \o path
             ELSE <<"C", ":">> \o path
        ELSE IF Len(path) > 2 /\ path[2] = ":" THEN path
        ELSE None

\* An accepted pac is kept; an unsupported one ends the process.  The empty
\* pac returns at once and leaves State.pac as it was.
set_pac(r, pac) ==
    IF pac = <<>> THEN r
    ELSE IF startswith(pac, S_http) THEN [r EXCEPT !.st.pac = pac]
    ELSE LET path == IF startswith(pac, S_file) THEN file_url_to_local_path(pac)
                     ELSE IF isabs(pac) THEN pac
                     ELSE join(ScriptDir, pac)
         IN  IF path = None THEN [r EXCEPT !.exit = "raise"]
             ELSE IF path \in files THEN [r EXCEPT !.st.pac = path]
             ELSE [r EXCEPT !.exit = "exit"]

RECURSIVE add_listen(_, _)
add_listen(listen, parts) ==
    IF parts = <<>> THEN listen
    ELSE LET clean == strip(Head(parts))
         IN  add_listen(IF Len(clean) # 0 /\ \A i \in 1..Len(listen) : listen[i] # clean
                        THEN Append(listen, clean)
                        ELSE listen,
                        Tail(parts))

\* A faulty variant: the entries are added to the list of the call before.
set_listen_appending(r, listen) ==
    IF Len(listen) = 0 THEN [r EXCEPT !.st.listen = <<S_loopback>>]
    ELSE [r EXCEPT !.st.listen =
            add_listen(IF r.st.listen = <<None>> THEN <<>> ELSE r.st.listen,
                       split(listen, ","))]

set_listen(r, listen) ==
    IF Len(listen) = 0 THEN [r EXCEPT !.st.listen = <<S_loopback>>]
    ELSE [r EXCEPT !.st.listen = add_listen(<<>>, split(listen, ","))]

\* gateway == 1: true of the int 1 only, never of a str.
set_gateway(r, gateway) == [r EXCEPT !.st.gateway = (gateway.t = "int" /\ gateway.n = 1)]

set_hostonly(r, hostonly) ==
    [r EXCEPT !.st.hostonly = (hostonly.t = "int" /\ hostonly.n = 1)]

set_allow(r, allow) == [r EXCEPT !.st.allow = parse_noproxy(allow)]

set_noproxy(r, noproxy) == [r EXCEPT !.st.noproxy = noproxy]

set_useragent(r, useragent) == [r EXCEPT !.st.useragent = useragent]

set_username(r, username) == [r EXCEPT !.st.username = username]

\* mcurl.getauth ends the process on a scheme it does not know.
set_auth(r, auth) ==
    LET a == IF Len(auth) = 0 THEN S_ANY ELSE auth
    IN  IF a \in AuthSchemes THEN [r EXCEPT !.st.auth = a] ELSE [r EXCEPT !.exit = "exit"]

\* get_logfile(location): the destination of the log, "None" for none.
get_logfile(location) ==
    IF location.t # "int" THEN "None"
    ELSE CASE location.n = LOG_SCRIPTDIR -> "scriptdir"
           [] location.n = LOG_CWD -> "cwd"
           [] location.n = LOG_UNIQLOG -> "uniqlog"
           [] location.n = LOG_STDOUT -> "stdout"
           [] OTHER -> "None"

\* A faulty variant: every call with a destination attaches, the last wins.
set_debug_last_wins(r, location) ==
    IF get_logfile(location) # "None"
    THEN [r EXCEPT !.st.location = location.n, !.st.debug = get_logfile(location)]
    ELSE r

set_debug(r, location) ==
    IF r.st.debug = "None" /\ get_logfile(location) # "None"
    THEN [r EXCEPT !.st.location = location.n, !.st.debug = get_logfile(location)]
    ELSE r

set_idle(r, idle) == [r EXCEPT !.st.idle = idle]

\* socket.setdefaulttimeout raises on a str and on a negative number.
set_socktimeout(r, socktimeout) ==
    IF socktimeout.t = "str" \/ (socktimeout.neg /\ (socktimeout.n # 0 \/ socktimeout.s # <<>>))
    THEN [r EXCEPT !.st.socktimeout = socktimeout, !.exit = "raise"]
    ELSE [r EXCEPT !.st.socktimeout = socktimeout]

set_proxyreload(r, proxyreload) == [r EXCEPT !.st.proxyreload = proxyreload]

set_test(r, test) == [r EXCEPT !.st.test = test]

\* State.callbacks.get(name)
callbacks(name) ==
    IF name \in {"pac", "listen", "gateway", "hostonly", "allow", "noproxy", "useragent",
                 "username", "auth", "idle", "socktimeout", "proxyreload", "test"}
    THEN "set_" \o name
    ELSE IF name = "log" THEN "set_debug"
    ELSE "None"

\* proc(val), for the proc cfg_init found; val is the typed value.
call(r, proc, val) ==
    CASE proc = "set_pac" -> set_pac(r, val.s)
      [] proc = "set_listen" -> set_listen(r, val.s)
      [] proc = "set_gateway" -> set_gateway(r, val)
      [] proc = "set_hostonly" -> set_hostonly(r, val)
      [] proc = "set_allow" -> set_allow(r, val.s)
      [] proc = "set_noproxy" -> set_noproxy(r, val.s)
      [] proc = "set_useragent" -> set_useragent(r, val.s)
      [] proc = "set_username" -> set_username(r, val.s)
      [] proc = "set_auth" -> set_auth(r, val.s)
      [] proc = "set_debug" -> set_debug(r, val)
      [] proc = "set_idle" -> set_idle(r, val)
      [] proc = "set_socktimeout" -> set_socktimeout(r, val)
      [] proc = "set_proxyreload" -> set_proxyreload(r, val)
      [] proc = "set_test" -> set_test(r, val.s)
      [] OTHER -> r

(***************************************************************************)
(* Configuration setup                                                     *)
(***************************************************************************)

\* The value an initializer starts from: the store's, stripped, unless the
\* call overrides or the store has none (NoOptionError); else the default.
start_val(r, section, name, default, override) ==
    IF ~override /\ name \in DOMAIN r.st.config[section]
    THEN strip(r.st.config[section][name])
    ELSE default

\* self.config.set(section, name, val)
config_set(r, section, name, val) ==
    [r EXCEPT !.st.config[section] = (name :> val) @@ @]

\* A value int() rejects stays the str it was (the ValueError is reported).
cfg_int_init(r, section, name, default, proc, override) ==
    LET raw == start_val(r, section, name, default, override)
        val == IF int_ok(raw) THEN IntV(int_val(raw)) ELSE StrV(raw)
    IN  call(config_set(r, section, name, str(val)), proc, val)

cfg_float_init(r, section, name, default, proc, override) ==
    LET raw == start_val(r, section, name, default, override)
        val == IF float_ok(raw) THEN float_val(raw) ELSE StrV(raw)
    IN  call(config_set(r, section, name, str(val)), proc, val)

cfg_str_init(r, section, name, default, proc, override) ==
    LET val == start_val(r, section, name, default, override)
    IN  call(config_set(r, section, name, val), proc, StrV(val))

\* A process that has ended runs no further statement.
cfg_init(r, name, val, override) ==
    IF r.exit # "run" THEN r
    ELSE IF name \in ProxyStrKeys
    THEN cfg_str_init(r, "proxy", name, val, callbacks(name), override)
    ELSE IF name \in ProxyIntKeys
    THEN cfg_int_init(r, "proxy", name, val, callbacks(name), override)
    ELSE IF name \in SettingsIntKeys
    THEN cfg_int_init(r, "settings", name, val, callbacks(name), override)
    ELSE IF name \in SettingsFloatKeys
    THEN cfg_float_init(r, "settings", name, val, callbacks(name), override)
    ELSE IF name = "test"
    THEN call(r, callbacks(name), StrV(val))
    ELSE r

\* for name, val in items: self.cfg_init(name, val, override)
RECURSIVE cfg_init_all(_, _, _)
cfg_init_all(r, items, override) ==
    IF items = <<>> THEN r
    ELSE cfg_init_all(cfg_init(r, Head(items)[1], Head(items)[2], override),
                      Tail(items), override)

(***************************************************************************)
(* Config sources                                                          *)
(***************************************************************************)

\* A dict in insertion order: a sequence of <<key, value>> with distinct keys.
dict_has(d, key) == \E i \in 1..Len(d) : d[i][1] = key

dict_get(d, key) == d[CHOOSE i \in 1..Len(d) : d[i][1] = key][2]

\* d[key] = val: a key already there keeps its place.
dict_set(d, key, val) ==
    IF dict_has(d, key)
    THEN [i \in 1..Len(d) |-> IF d[i][1] = key THEN <<key, val>> ELSE d[i]]
    ELSE Append(d, <<key, val>>)

\* del d[key]
dict_del(d, key) == SelectSeq(d, LAMBDA e : e[1] # key)

\* "--name" in sys.argv: the bare flag, not --name=val.
in_argv(argv, name) == \E i \in 1..Len(argv) : argv[i].name = name /\ ~argv[i].eq

RECURSIVE cli_flags(_, _)
cli_flags(flags, argv) ==
    IF argv = <<>> THEN flags
    ELSE cli_flags(dict_set(flags, Head(argv).name,
                            IF Head(argv).eq THEN Head(argv).val ELSE <<"1">>),
                   Tail(argv))

\* --name=val and --name (value "1"), a later flag replacing an earlier one
\* of the same name; --proxy is a synonym for --server.
parse_cli(argv) ==
    LET flags == cli_flags(<<>>, argv)
    IN  IF dict_has(flags, "proxy")
        THEN dict_del(dict_set(flags, "server", dict_get(flags, "proxy")), "proxy")
        ELSE flags

RECURSIVE env_vars(_, _)
env_vars(env, vars_left) ==
    IF vars_left = <<>> THEN env
    ELSE env_vars(dict_set(env, Head(vars_left)[1], Head(vars_left)[2]), Tail(vars_left))

\* The PX_* variables as a dict.
parse_env(os_environ) == env_vars(<<>>, os_environ)

(***************************************************************************)
(* parse_config                                                            *)
(***************************************************************************)

S_px_ini == <<"p", "x", ".", "i", "n", "i">>

\* --debug, --uniqlog or --verbose attach the logger before anything else.
early_debug(r, argv) ==
    IF in_argv(argv, "debug") THEN set_debug(r, IntV(LOG_SCRIPTDIR))
    ELSE IF in_argv(argv, "uniqlog") THEN set_debug(r, IntV(LOG_UNIQLOG))
    ELSE IF in_argv(argv, "verbose") THEN set_debug(r, IntV(LOG_STDOUT))
    ELSE r

\* --verbose implies --foreground: the flag is appended to sys.argv.
verbose_argv(argv) ==
    IF /\ ~in_argv(argv, "debug")
       /\ ~in_argv(argv, "uniqlog")
       /\ in_argv(argv, "verbose")
       /\ ~in_argv(argv, "foreground")
    THEN Append(argv, [name |-> "foreground", eq |-> FALSE, val |-> <<>>])
    ELSE argv

\* -h / --help prints the help and exits.
help_exit(r, argv) == IF in_argv(argv, "help") THEN [r EXCEPT !.exit = "exit"] ELSE r

\* The configuration file: px.ini when it exists or a save is asked for.
locate_ini(r, flags, env, ini) ==
    IF ini.exists \/ dict_has(flags, "save") \/ dict_has(env, "save")
    THEN [r EXCEPT !.st.ini = S_px_ini]
    ELSE r

\* ConfigParser.read: each value of the file, stripped; then both sections
\* exist.
load_config(r, ini) ==
    IF ini.exists
    THEN [r EXCEPT !.st.config =
            [sec \in {"proxy", "settings"} |->
                [k \in DOMAIN ini.text[sec] |-> strip(ini.text[sec][k])]]]
    ELSE [r EXCEPT !.st.config = [proxy |-> EmptyMap, settings |-> EmptyMap]]

\* Override --log if --debug | --verbose | --uniqlog specified
log_override(r) ==
    cfg_int_init(r, "settings", "log", str(IntV(r.st.location)), "None", TRUE)

\* Default initialize if not already from config file
pass_defaults(r) == cfg_init_all(r, DEFAULTS, FALSE)

\* A faulty variant: the environment pass without override: the store's value stays.
pass_env_no_override(r, env) == cfg_init_all(r, env, FALSE)

\* Override from environment
pass_env(r, env) == cfg_init_all(r, env, TRUE)

\* A faulty variant: the CLI pass without override: the store's value stays.
pass_cli_no_override(r, flags) == cfg_init_all(r, flags, FALSE)

\* Final override from CLI which takes highest precedence
pass_cli(r, flags) == cfg_init_all(r, flags, TRUE)

\* parse_config up to the end of the four passes.
resolve(r, argv, os_environ, ini) ==
    LET r1 == help_exit(early_debug(r, argv), argv)
        flags == parse_cli(verbose_argv(argv))
        env == parse_env(os_environ)
    IN  IF r1.exit # "run" THEN r1
        ELSE pass_cli(pass_env(pass_defaults(log_override(
                load_config(locate_ini(r1, flags, env, ini), ini))), env), flags)

\* A faulty variant: listen forced in the State only, the store left behind.
listen_all_state_only(r) == [r EXCEPT !.st.listen = << <<>> >>]

\* self.listen = [""]; self.config.set("proxy", "listen", "")
listen_all(r) == config_set([r EXCEPT !.st.listen = << <<>> >>], "proxy", "listen", <<>>)

WideOpen == {S_allow_glob, S_allow_cidr}

\* A faulty variant: the purge decided by hostonly alone.
purge_allow_any_gateway(r, allow) == r.st.hostonly

\* If not gateway mode or gateway with default allow rules
purge_allow(r, allow) ==
    r.st.hostonly /\ (~r.st.gateway \/ (r.st.gateway /\ allow \in WideOpen))

\* Dependency propagation
propagate(r) ==
    LET allow == r.st.config["proxy"]["allow"]
        r1 == IF r.st.gateway THEN listen_all(r) ELSE r
        r2 == IF r1.st.hostonly THEN listen_all(r1) ELSE r1
    IN  IF purge_allow(r2, allow) THEN cfg_init(r2, "allow", <<>>, TRUE) ELSE r2

\* State.save: ConfigParser.write puts every value of the store in the file.
save(r) == [exists |-> TRUE, text |-> r.st.config]

\* Discover proxy info from OS: the mode of the source parse_config builds,
\* explicit servers first, else the pac that set_pac accepted, else the OS's.
discover_mode(r) ==
    IF Len(parse_proxy(r.st.config["proxy"]["server"])) # 0 THEN MODE_CONFIG
    ELSE IF Len(r.st.pac) # 0 THEN MODE_CONFIG_PAC
    ELSE MODE_AUTO

\* The source is built; an auto-detected one is stamped with the time.
discover(r, now) ==
    IF discover_mode(r) = MODE_AUTO
    THEN [r EXCEPT !.st.wproxy = Wproxy(MODE_AUTO, 0), !.st.proxy_last_reload = now]
    ELSE [r EXCEPT !.st.wproxy = Wproxy(discover_mode(r), 0)]

(***************************************************************************)
(* The processes of the OS, as psutil shows them to quit                    *)
(***************************************************************************)

\* The number of process ids of the OS.
NProcs == 4

\* psutil.pids()
Pids == 1..NProcs

\* os.getpid(): the process that calls quit.
Me == 1

\* A process: ppid is its parent (0: none among Pids); px tells that its
\* executable is the caller's and its command line that of px (exepath ==
\* mypath and qt); alive that it runs.
Proc(ppid, px, alive) == [ppid |-> ppid, px |-> px, alive |-> alive]

\* The caller with no other instance of px around.
Alone == [p \in Pids |-> Proc(0, p = Me, TRUE)]

\* No call of quit is in progress.
NoQuit ==
    [pc |-> "none", checkOnly |-> FALSE, exit |-> FALSE, todo |-> <<>>, count |-> 0,
     scans |-> 0, ret |-> FALSE, kills |-> <<>>, err |-> "none"]

(***************************************************************************)
(* The steps of a process                                                   *)
(***************************************************************************)

\* No thread runs reload_proxy while the configuration is being parsed, and
\* quit is not running.
ThreadsIdle == UNCHANGED <<clock, state_lock, tpc, reloads, procs, quit_call>>

\* parse_config, from its first line to the end of the CLI pass.
Resolve ==
    /\ pc = "start"
    /\ LET r == resolve(Process(state), sys_argv, environ, inifile)
       IN  /\ state' = r.st
           /\ pc' = IF r.exit = "run" THEN "resolved" ELSE "exited"
    /\ sys_argv' = verbose_argv(sys_argv)
    /\ UNCHANGED <<environ, inifile, files, run>>
    /\ ThreadsIdle

\* parse_config: dependency propagation.
Propagate ==
    /\ pc = "resolved"
    /\ state' = propagate(Process(state)).st
    /\ pc' = "propagated"
    /\ UNCHANGED <<sys_argv, environ, inifile, files, run>>
    /\ ThreadsIdle

\* parse_config: --save writes the store to the file and exits.
Save ==
    /\ pc = "propagated"
    /\ ~in_argv(sys_argv, "quit")
    /\ ~in_argv(sys_argv, "restart")
    /\ in_argv(sys_argv, "save")
    /\ inifile' = save(Process(state))
    /\ pc' = "saved"
    /\ UNCHANGED <<state, sys_argv, environ, files, run>>
    /\ ThreadsIdle

\* parse_config: with no action flag, the proxy source is chosen; without
\* servers and pac the OS is asked and the time of the answer is kept.
Discover ==
    /\ \/ pc = "restarting"
       \/ /\ pc = "propagated"
          /\ ~in_argv(sys_argv, "quit")
          /\ ~in_argv(sys_argv, "restart")
          /\ ~in_argv(sys_argv, "save")
    /\ state' = discover(Process(state), clock).st
    /\ pc' = "done"
    /\ UNCHANGED <<sys_argv, environ, inifile, files, run>>
    /\ ThreadsIdle

\* px is started again on the file it saved, with no PX_* variable and no
\* flag: a new process, with a new State.
StartAgain ==
    /\ pc = "saved"
    /\ run = 1
    /\ state' = State0
    /\ sys_argv' = <<>>
    /\ environ' = <<>>
    /\ pc' = "start"
    /\ run' = 2
    /\ UNCHANGED <<inifile, files>>
    /\ ThreadsIdle

(***************************************************************************)
(* Inputs                                                                  *)
(***************************************************************************)

\* The longest command line of the precedence scenarios.
MaxArgs == 2

\* The number of threads calling reload_proxy.
NThreads == 2

Threads == 1..NThreads

Arg(name, val) == [name |-> name, eq |-> TRUE, val |-> val]

Flag(name) == [name |-> name, eq |-> FALSE, val |-> <<>>]

S_narrow == <<"1", "0", ".", "*", ".", "*", ".", "*">>

S_NTLM == <<"N", "T", "L", "M">>

\* The values tried for a key: well-formed, padded with blanks, malformed.
Samples(k) ==
    CASE k \in ProxyIntKeys \cup SettingsIntKeys -> {<<"1">>, <<" ", "0", "7">>, <<"x">>}
      [] k \in SettingsFloatKeys -> {<<"5">>, <<" ", "2", ".", "5", "0">>, <<"x">>}
      [] k = "allow" -> {<<>>, S_allow_cidr, S_narrow}
      [] k = "listen" -> {<<>>, <<"a">>, <<"a", ",", " ", "a", ",", "b">>}
      [] k = "pac" -> {<<>>, S_http, <<"p">>}
      [] k = "auth" -> {<<>>, S_NTLM, <<"x">>}
      [] OTHER -> {<<>>, <<"a">>, <<" ", "b">>}

SeqsUpTo(S, n) == UNION {[1..m -> S] : m \in 0..n}

\* A px.ini holding the keys of m, each in its section.
FileWith(m) ==
    [exists |-> TRUE,
     text |-> [sec \in {"proxy", "settings"} |->
                [k \in {x \in DOMAIN m : SectionOf(x) = sec} |-> m[k]]]]

NoFile == [exists |-> FALSE, text |-> [proxy |-> EmptyMap, settings |-> EmptyMap]]

\* What the file and the environment may hold for key k.
FilesFor(k) == {NoFile} \cup {FileWith(k :> v) : v \in Samples(k)}

EnvsFor(k) == {<<>>} \cup {<< <<k, v>> >> : v \in Samples(k)}

\* The flags of a command line that give key k a value.
ArgsFor(k) ==
    {Arg(k, v) : v \in Samples(k)} \cup {Flag(k)}
        \cup (IF k = "server" THEN {Arg("proxy", v) : v \in Samples(k)} ELSE {})

\* The flags that follow them: none, or one that is no key of the table.
ActionFlags == {<<>>, <<Flag("save")>>, <<Flag("verbose")>>, <<Flag("debug")>>}

\* The local files that may exist: the pac of the samples, or none.
LocalFiles == {{}, {join(ScriptDir, <<"p">>)}}

\* The state common to every start: a fresh State, no thread in reload_proxy.
Fresh ==
    /\ state = State0
    /\ pc = "start"
    /\ run = 1
    /\ clock = 0
    /\ state_lock = 0
    /\ tpc = [t \in Threads |-> "idle"]
    /\ reloads = 0
    /\ procs = Alone
    /\ quit_call = NoQuit

\* One key given by the file, the environment and the command line, in
\* every combination and every order of up to MaxArgs flags.
Init ==
    /\ Fresh
    /\ \E k \in ConfigKeys :
        /\ inifile \in FilesFor(k)
        /\ environ \in EnvsFor(k)
        /\ \E given \in SeqsUpTo(ArgsFor(k), MaxArgs), action \in ActionFlags :
                sys_argv = given \o action
        /\ files \in IF k = "pac" THEN LocalFiles ELSE {{}}

\* The modes and the settings they derive, from several sources at once.
ModeFiles ==
    {FileWith(m) : m \in
        UNION {[D -> {<<"1">>}] : D \in SUBSET {"gateway", "hostonly"}}}
    \cup {FileWith("allow" :> v) : v \in {S_allow_cidr, S_narrow}}
    \cup {FileWith(("allow" :> S_narrow) @@ ("hostonly" :> <<"1">>) @@ ("listen" :> <<"a">>)),
          FileWith(("allow" :> S_narrow) @@ ("gateway" :> <<"1">>) @@ ("listen" :> <<"a">>))}

ModeEnvs == {<<>>, << <<"gateway", <<"1">>>> >>, << <<"hostonly", <<"1">>>> >>}

ModeArgs ==
    {Flag("gateway"), Flag("hostonly"), Arg("gateway", <<"0">>), Arg("hostonly", <<"0">>),
     Arg("gateway", <<"x">>), Arg("allow", S_allow_glob), Arg("allow", S_narrow),
     Arg("allow", <<>>), Arg("listen", <<"b">>), Flag("save")}

InitModes ==
    /\ Fresh
    /\ inifile \in ModeFiles
    /\ environ \in ModeEnvs
    /\ sys_argv \in SeqsUpTo(ModeArgs, MaxArgs)
    /\ files = {}

(***************************************************************************)
(* State.reload_proxy, one step per statement, run by the threads           *)
(***************************************************************************)

\* The last reading of the clock: time.time() is taken not to run backwards.
MaxClock == 5

\* The number of proxy sources reload_proxy may build in one run.
MaxReloads == 3

\* Proxies specified in Px config
in_config(st) == st.wproxy.mode \in {MODE_CONFIG, MODE_CONFIG_PAC}

\* A faulty variant: the refresh is due whatever time has elapsed.
refresh_check_always(st, now) == "reload"

\* A faulty variant: once a resolution is stamped no refresh is ever due.
refresh_check_never(st, now) ==
    IF st.proxy_last_reload = NoTime THEN "reload" ELSE "skip"

\* Check if need to refresh: proxy_last_reload is not None and
\* time.time() - proxy_last_reload < proxyreload.  A proxyreload that did not
\* parse is a str, and comparing a float with it raises TypeError.
refresh_check(st, now) ==
    IF st.proxy_last_reload = NoTime THEN "reload"
    ELSE IF st.proxyreload.t = "str" THEN "raise"
    ELSE IF now - st.proxy_last_reload < st.proxyreload.n THEN "skip"
    ELSE "reload"

\* The rest of the program stands still while a thread steps.
ThreadStep ==
    UNCHANGED <<pc, sys_argv, environ, inifile, files, run, clock, procs, quit_call>>

\* A faulty variant: reload_proxy entered whatever the mode of the source.
Call_any_mode(t) ==
    /\ pc = "done"
    /\ tpc[t] = "idle"
    /\ tpc' = [tpc EXCEPT ![t] = "acquire"]
    /\ UNCHANGED <<state, state_lock, reloads>>
    /\ ThreadStep

\* reload_proxy is called: it returns at once when the proxies are
\* specified in the configuration.
Call(t) ==
    /\ pc = "done"
    /\ tpc[t] = "idle"
    /\ tpc' = [tpc EXCEPT ![t] = IF in_config(state) THEN "returned" ELSE "acquire"]
    /\ UNCHANGED <<state, state_lock, reloads>>
    /\ ThreadStep

\* A faulty variant: the lock is taken without waiting for it.
Acquire_no_wait(t) ==
    /\ tpc[t] = "acquire"
    /\ state_lock' = t
    /\ tpc' = [tpc EXCEPT ![t] = "check"]
    /\ UNCHANGED <<state, reloads>>
    /\ ThreadStep

\* self.state_lock.acquire()
Acquire(t) ==
    /\ tpc[t] = "acquire"
    /\ state_lock = 0
    /\ state_lock' = t
    /\ tpc' = [tpc EXCEPT ![t] = "check"]
    /\ UNCHANGED <<state, reloads>>
    /\ ThreadStep

\* The check of the elapsed time, with the clock as it is read now.
Check(t) ==
    /\ tpc[t] = "check"
    /\ tpc' = [tpc EXCEPT ![t] =
                CASE refresh_check(state, clock) = "skip" -> "skipped"
                  [] refresh_check(state, clock) = "raise" -> "failed"
                  [] OTHER -> "reload"]
    /\ UNCHANGED <<state, state_lock, reloads>>
    /\ ThreadStep

\* Reload proxy information: self.wproxy = Wproxy(...), a new source found
\* by asking the OS, or an exception out of the detection.
Detect(t) ==
    /\ tpc[t] = "reload"
    /\ \/ /\ reloads < MaxReloads
          /\ state' = [state EXCEPT !.wproxy = Wproxy(MODE_AUTO, reloads + 1)]
          /\ reloads' = reloads + 1
          /\ tpc' = [tpc EXCEPT ![t] = "stamp"]
       \/ /\ tpc' = [tpc EXCEPT ![t] = "failed"]
          /\ UNCHANGED <<state, reloads>>
    /\ UNCHANGED state_lock
    /\ ThreadStep

\* self.proxy_last_reload = time.time(), the clock read a second time.
Stamp(t) ==
    /\ tpc[t] = "stamp"
    /\ state' = [state EXCEPT !.proxy_last_reload = clock]
    /\ tpc' = [tpc EXCEPT ![t] = "stamped"]
    /\ UNCHANGED <<state_lock, reloads>>
    /\ ThreadStep

\* A faulty variant: the lock is released on return, not on exception.
Release_on_return(t) ==
    /\ tpc[t] \in {"skipped", "stamped", "failed"}
    /\ state_lock' = IF tpc[t] = "failed" THEN state_lock ELSE 0
    /\ tpc' = [tpc EXCEPT ![t] = "returned"]
    /\ UNCHANGED <<state, reloads>>
    /\ ThreadStep

\* finally: self.state_lock.release(), on return and on exception alike.
Release(t) ==
    /\ tpc[t] \in {"skipped", "stamped", "failed"}
    /\ state_lock' = 0
    /\ tpc' = [tpc EXCEPT ![t] = "returned"]
    /\ UNCHANGED <<state, reloads>>
    /\ ThreadStep

\* The call is over, by return or by exception; the thread may call again.
Return(t) ==
    /\ tpc[t] = "returned"
    /\ tpc' = [tpc EXCEPT ![t] = "idle"]
    /\ UNCHANGED <<state, state_lock, reloads>>
    /\ ThreadStep

\* Time passes.
Tick ==
    /\ clock < MaxClock
    /\ clock' = clock + 1
    /\ UNCHANGED <<state, pc, sys_argv, environ, inifile, files, run, state_lock, tpc,
                   reloads, procs, quit_call>>

\* The refresh intervals tried: none, two ticks, one that does not parse.
ReloadArgs ==
    {<<Arg("proxyreload", v)>> \o src :
        v \in {<<"0">>, <<"2">>, <<"x">>},
        src \in {<<>>, <<Arg("server", <<"a">>)>>, <<Arg("pac", S_http)>>}}

InitReload ==
    /\ Fresh
    /\ inifile = NoFile
    /\ environ = <<>>
    /\ sys_argv \in ReloadArgs
    /\ files = {}

NextReload ==
    \/ Resolve
    \/ Propagate
    \/ Discover
    \/ Tick
    \/ \E t \in Threads :
        Call(t) \/ Acquire(t) \/ Check(t) \/ Detect(t) \/ Stamp(t) \/ Release(t) \/ Return(t)

SpecReload == InitReload /\ [][NextReload]_vars

\* Fair scheduling: a thread inside reload_proxy keeps running, and a
\* thread that finds the lock free again and again gets it.
SpecReloadFair ==
    /\ SpecReload
    /\ \A t \in Threads :
        /\ WF_vars(Check(t) \/ Detect(t) \/ Stamp(t) \/ Release(t))
        /\ SF_vars(Acquire(t))

(***************************************************************************)
(* quit: the scan of the processes, one loop iteration per step             *)
(***************************************************************************)

\* The most loops over the processes that are followed.
MaxScans == 3

\* mypids = [os.getpid(), os.getppid()]
mypids(pr) == {Me, pr[Me].ppid}

\* A set of pids, highest first and lowest first.
RECURSIVE descending(_)
descending(S) ==
    IF S = {} THEN <<>>
    ELSE LET m == CHOOSE x \in S : \A y \in S : y <= x
         IN  <<m>> \o descending(S \ {m})

RECURSIVE ascending(_)
ascending(S) ==
    IF S = {} THEN <<>>
    ELSE LET m == CHOOSE x \in S : \A y \in S : x <= y
         IN  <<m>> \o ascending(S \ {m})

\* sorted(psutil.pids(), reverse=True): the running processes.
pids(pr) == descending({p \in Pids : pr[p].alive})

\* The running processes whose parent is in S.
kids(pr, S) == {c \in Pids : pr[c].alive /\ pr[c].ppid \in S}

RECURSIVE subtree(_, _)
subtree(pr, S) == IF kids(pr, S) \subseteq S THEN S ELSE subtree(pr, S \cup kids(pr, S))

\* p.children(recursive=True)
children(pr, p) == ascending(subtree(pr, {p}) \ {p})

\* What may go wrong with one pid: nothing; psutil.Process(pid), exe() or
\* cmdline() raises; the k-th kill raises.  The error is one the loop
\* swallows (AccessDenied, NoSuchProcess, ...) or one it reports.
NoFault == [at |-> "none", k |-> 0, kind |-> "none"]

Faults ==
    {NoFault}
        \cup {[at |-> "resolve", k |-> 0, kind |-> e] : e \in {"swallowed", "reported"}}
        \cup {[at |-> "kill", k |-> k, kind |-> e] :
                k \in 1..NProcs, e \in {"swallowed", "reported"}}

\* The kills of a matched instance: its children, then itself.
victims(pr, p) == children(pr, p) \o <<p>>

\* The victims a kill reaches: those before the kill that raises, and none
\* after the caller itself, which dies of its own kill.
killed(v, fault) ==
    LET stop == IF fault.at = "kill" /\ fault.k <= Len(v) THEN fault.k - 1 ELSE Len(v)
    IN  IF \E i \in 1..stop : v[i] = Me
        THEN SubSeq(v, 1, CHOOSE i \in 1..stop : v[i] = Me)
        ELSE SubSeq(v, 1, stop)

\* A faulty variant: an error ends the loop.
after_error_abort(qc, kind) == [qc EXCEPT !.todo = <<>>, !.err = kind]

\* except ...: pass, and except: traceback.print_exc(); the loop goes on
\* with the next pid.
after_error(qc, kind) == [qc EXCEPT !.todo = Tail(@), !.err = kind]

\* One iteration of the loop, on the first pid left.
examine(qc, pr, fault) ==
    LET pid == Head(qc.todo)
        next == [qc EXCEPT !.todo = Tail(@), !.err = "none"]
    IN  IF pid \in mypids(pr) THEN [q |-> next, procs |-> pr]
        ELSE IF ~pr[pid].alive THEN [q |-> after_error(qc, "swallowed"), procs |-> pr]
        ELSE IF fault.at = "resolve" THEN [q |-> after_error(qc, fault.kind), procs |-> pr]
        ELSE IF ~pr[pid].px THEN [q |-> next, procs |-> pr]
        ELSE LET v == victims(pr, pid)
                 dead == killed(v, fault)
                 gone == {dead[i] : i \in 1..Len(dead)}
                 after == [p \in Pids |->
                            IF p \in gone THEN [pr[p] EXCEPT !.alive = FALSE] ELSE pr[p]]
                 counted == [qc EXCEPT !.count = @ + 1, !.kills = @ \o dead, !.err = "none"]
             IN  IF Me \in gone
                 THEN [q |-> [counted EXCEPT !.pc = "dead"], procs |-> after]
                 ELSE IF Len(dead) < Len(v)
                 THEN [q |-> after_error(counted, fault.kind), procs |-> after]
                 ELSE [q |-> [counted EXCEPT !.todo = Tail(@)], procs |-> after]

\* A faulty variant: instances found are confirmed again and again.
report_again(qc) ==
    IF qc.count # 0 THEN [qc EXCEPT !.pc = "sleep"]
    ELSE [qc EXCEPT !.pc = "end", !.ret = qc.checkOnly]

\* After the loop: with instances found, " Failed" in check-only mode, else
\* the sleep and the confirming call; with none, " DONE" and True in
\* check-only mode, else "Px is not running".
report(qc) ==
    IF qc.count # 0
    THEN IF qc.checkOnly THEN [qc EXCEPT !.pc = "end", !.ret = FALSE]
         ELSE [qc EXCEPT !.pc = "sleep"]
    ELSE IF qc.checkOnly THEN [qc EXCEPT !.pc = "end", !.ret = TRUE]
         ELSE [qc EXCEPT !.pc = "end", !.ret = FALSE]

\* Nothing but quit and the processes moves.
QuitStep ==
    UNCHANGED <<state, sys_argv, environ, inifile, files, run, clock, state_lock, tpc,
                reloads>>

\* parse_config: --quit calls quit(), --restart calls quit(exit = False).
QuitCall ==
    /\ pc = "propagated"
    /\ in_argv(sys_argv, "quit") \/ in_argv(sys_argv, "restart")
    /\ quit_call' = [NoQuit EXCEPT !.pc = "scan",
                                   !.exit = in_argv(sys_argv, "quit"),
                                   !.todo = pids(procs),
                                   !.scans = 1]
    /\ pc' = "quit"
    /\ UNCHANGED procs
    /\ QuitStep

\* for pid in sorted(psutil.pids(), reverse=True): one pid.
Examine ==
    /\ pc = "quit"
    /\ quit_call.pc = "scan"
    /\ quit_call.todo # <<>>
    /\ \E fault \in Faults :
        LET e == examine(quit_call, procs, fault)
        IN  /\ quit_call' = e.q
            /\ procs' = e.procs
            /\ pc' = IF e.q.pc = "dead" THEN "killed" ELSE pc
    /\ QuitStep

\* The loop is over.
Report ==
    /\ pc = "quit"
    /\ quit_call.pc = "scan"
    /\ quit_call.todo = <<>>
    /\ quit_call' = report(quit_call)
    /\ UNCHANGED <<pc, procs>>
    /\ QuitStep

\* While quit sleeps, an instance that was killed is started again.
Respawn ==
    /\ quit_call.pc = "sleep"
    /\ \E p \in Pids \ {Me} :
        /\ procs[p].px
        /\ ~procs[p].alive
        /\ procs' = [procs EXCEPT ![p] = Proc(0, TRUE, TRUE)]
    /\ UNCHANGED <<pc, quit_call>>
    /\ QuitStep

\* time.sleep(4); ret = quit(checkOnly = True, exit = exit): the same loop
\* over the processes of now, with a count of its own.
Confirm ==
    /\ pc = "quit"
    /\ quit_call.pc = "sleep"
    /\ quit_call.scans < MaxScans
    /\ quit_call' = [quit_call EXCEPT !.pc = "scan",
                                      !.checkOnly = TRUE,
                                      !.count = 0,
                                      !.todo = pids(procs),
                                      !.scans = @ + 1,
                                      !.err = "none"]
    /\ UNCHANGED <<pc, procs>>
    /\ QuitStep

\* if exit: sys.exit(); return ret.  Back in parse_config, --restart exits
\* unless quit returned True, and else removes itself from sys.argv.
Finish ==
    /\ pc = "quit"
    /\ quit_call.pc = "end"
    /\ quit_call' = [quit_call EXCEPT !.pc = "returned"]
    /\ IF ~quit_call.exit /\ quit_call.ret
       THEN /\ pc' = "restarting"
            /\ sys_argv' = SelectSeq(sys_argv, LAMBDA a : a.name # "restart")
       ELSE /\ pc' = "exited"
            /\ UNCHANGED sys_argv
    /\ UNCHANGED <<state, environ, inifile, files, run, clock, state_lock, tpc, reloads, procs>>

\* The process trees: every forest over the pids, every choice of the
\* processes that are instances of px, all running.
ProcTables ==
    {t \in [Pids -> {Proc(pp, x, TRUE) : pp \in 0..NProcs, x \in BOOLEAN}] :
        /\ t[Me].px
        /\ \A p \in Pids : p \notin subtree(t, kids(t, {p}))}

InitQuit ==
    /\ state = State0
    /\ pc = "start"
    /\ run = 1
    /\ clock = 0
    /\ state_lock = 0
    /\ tpc = [t \in Threads |-> "idle"]
    /\ reloads = 0
    /\ quit_call = NoQuit
    /\ procs \in ProcTables
    /\ inifile = NoFile
    /\ environ = <<>>
    /\ sys_argv \in {<<Flag("quit")>>, <<Flag("restart")>>}
    /\ files = {}

\* The steps of the process that quits.
QuitSteps == QuitCall \/ Examine \/ Report \/ Confirm \/ Finish

NextQuit == Resolve \/ Propagate \/ Discover \/ Respawn \/ QuitSteps

SpecQuit == InitQuit /\ [][NextQuit]_vars

\* The process is scheduled as long as it has a step to take.
SpecQuitFair == SpecQuit /\ WF_vars(QuitSteps)

(***************************************************************************)
(* --verbose among the other flags                                          *)
(***************************************************************************)

\* The flags that meet --verbose, and the foreground values of the file
\* and the environment.
VerboseArgs ==
    {Flag("verbose"), Flag("debug"), Flag("uniqlog"), Flag("foreground"),
     Arg("foreground", <<"0">>)}

InitVerbose ==
    /\ Fresh
    /\ inifile \in {NoFile} \cup {FileWith("foreground" :> v) : v \in {<<"0">>, <<"1">>}}
    /\ environ \in {<<>>} \cup {<< <<"foreground", v>> >> : v \in {<<"0">>, <<"1">>}}
    /\ sys_argv \in SeqsUpTo(VerboseArgs, MaxArgs)
    /\ files = {}

NextVerbose == Resolve \/ Propagate \/ Discover

SpecVerbose == InitVerbose /\ [][NextVerbose]_vars

Next == Resolve \/ Propagate \/ Save \/ Discover \/ StartAgain

Spec == Init /\ [][Next]_vars

SpecModes == InitModes /\ [][Next]_vars

(***************************************************************************)
(* What the claims speak of                                                *)
(***************************************************************************)

\* The canonical store's value for key k.
Store(k) == state.config[SectionOf(k)][k]

\* The canonical string of a value of key k: str(int(v)) or str(float(v))
\* where v parses, v itself where it does not or where k is a string key.
Normalized(k, v) ==
    IF k \in ProxyIntKeys \cup SettingsIntKeys
    THEN IF int_ok(v) THEN int_str(int_val(v)) ELSE v
    ELSE IF k \in SettingsFloatKeys
    THEN IF float_ok(v) THEN str(float_val(v)) ELSE v
    ELSE v

\* The flags that give key k a value: --k, and --proxy for server.
FlagNames(k) == IF k = "server" THEN {"server", "proxy"} ELSE {k}

Named(argv, names) == {i \in 1..Len(argv) : argv[i].name \in names}

Last(I) == CHOOSE i \in I : \A j \in I : j <= i

\* The command line, as parse_cli reads it, gives key k a value: that of
\* the last --proxy if there is one, else that of the last --k; a bare
\* flag stands for "1".
CliGiven(k) == Named(sys_argv, FlagNames(k)) # {}

CliValue(k) ==
    LET I == IF k = "server" /\ Named(sys_argv, {"proxy"}) # {}
             THEN Named(sys_argv, {"proxy"})
             ELSE Named(sys_argv, {k})
        a == sys_argv[Last(I)]
    IN  IF a.eq THEN a.val ELSE <<"1">>

EnvGiven(k) == \E i \in 1..Len(environ) : environ[i][1] = k

EnvValue(k) == environ[CHOOSE i \in 1..Len(environ) : environ[i][1] = k][2]

FileGiven(k) == inifile.exists /\ k \in DOMAIN inifile.text[SectionOf(k)]

\* The file's value as ConfigParser reads it.
FileValue(k) == strip(inifile.text[SectionOf(k)][k])

\* C1: after the four passes, every key the command line gives a value
\* holds the normalized command-line value, whatever the file and the
\* environment give for it and in whatever order the flags come.  The
\* command line is sys.argv as parse_cli reads it, the --foreground that
\* --verbose appends included.
C1_CliWins ==
    pc = "resolved" =>
        \A k \in ConfigKeys : CliGiven(k) => Store(k) = Normalized(k, CliValue(k))

\* A key given three different values by the file, the environment and the
\* command line, resolved to the command line's.
C1_Witness ==
    /\ pc = "resolved"
    /\ \E k \in ConfigKeys :
        /\ CliGiven(k) /\ EnvGiven(k) /\ FileGiven(k)
        /\ Normalized(k, CliValue(k)) # Normalized(k, EnvValue(k))
        /\ Normalized(k, CliValue(k)) # Normalized(k, FileValue(k))
        /\ Store(k) = Normalized(k, CliValue(k))

\* C2: after the four passes, every key the environment gives a value holds
\* the normalized environment value when the command line gives none,
\* whatever the file holds, and the command line's value when it gives one.
C2_EnvOverFile ==
    pc = "resolved" =>
        \A k \in ConfigKeys :
            EnvGiven(k) =>
                Store(k) = Normalized(k, IF CliGiven(k) THEN CliValue(k) ELSE EnvValue(k))

\* A key the file and the environment give different values and the
\* command line none, resolved to the environment's.
C2_Witness ==
    /\ pc = "resolved"
    /\ \E k \in ConfigKeys :
        /\ EnvGiven(k) /\ FileGiven(k) /\ ~CliGiven(k)
        /\ Normalized(k, EnvValue(k)) # Normalized(k, FileValue(k))
        /\ Store(k) = Normalized(k, EnvValue(k))

\* The documented defaults.
Documented ==
    [ server |-> <<>>,
      pac |-> <<>>,
      pac_encoding |-> <<"u", "t", "f", "-", "8">>,
      port |-> <<"3", "1", "2", "8">>,
      listen |-> <<"1", "2", "7", ".", "0", ".", "0", ".", "1">>,
      gateway |-> <<"0">>,
      hostonly |-> <<"0">>,
      allow |-> <<"*", ".", "*", ".", "*", ".", "*">>,
      noproxy |-> <<>>,
      useragent |-> <<>>,
      username |-> <<>>,
      auth |-> <<>>,
      workers |-> <<"2">>,
      threads |-> <<"3", "2">>,
      idle |-> <<"3", "0">>,
      socktimeout |-> <<"2", "0", ".", "0">>,
      proxyreload |-> <<"6", "0">>,
      foreground |-> <<"0">>,
      log |-> <<"0">> ]

\* No configuration file, no PX_* variable, no flag.
NoInputs == run = 1 /\ ~inifile.exists /\ environ = <<>> /\ sys_argv = <<>>

\* C5: with no file, no environment and no command line, parse_config
\* resolves, the store holds exactly the documented default of every key,
\* and propagation changes none of them.
C5_Defaults ==
    NoInputs =>
        /\ pc # "exited"
        /\ pc \in {"resolved", "propagated", "done"} =>
            /\ DOMAIN state.config["proxy"] \cup DOMAIN state.config["settings"] = ConfigKeys
            /\ \A k \in ConfigKeys : Store(k) = Documented[k]

\* parse_config has run to its end on no input.
C5_Witness == NoInputs /\ pc = "done" /\ Store("socktimeout") = Documented["socktimeout"]

\* C3: with no environment and no command line, parse_config leaves in the
\* store, for every key, the normalized value the file holds for it, and
\* the default only where the file holds none.  Stated for the keys that
\* propagation never rewrites (listen and allow are derived under gateway
\* and hostonly), so that a violation is one of the read through the file.
C3_FileReadThrough ==
    (pc = "done" /\ environ = <<>> /\ sys_argv = <<>>) =>
        \A k \in ConfigKeys \ {"listen", "allow"} :
            Store(k) = IF FileGiven(k) THEN Normalized(k, FileValue(k)) ELSE Documented[k]

\* C4: once the store is saved, parse_config run again on the saved file
\* with no environment and no command line ends with the very strings that
\* were saved, for every key.
C4_RoundTrip ==
    (run = 2 /\ pc = "done") =>
        \A k \in ConfigKeys : Store(k) = inifile.text[SectionOf(k)][k]

\* The resolved configuration enables a mode: its value in the store is 1.
GatewayOn == Store("gateway") = <<"1">>

HostonlyOn == Store("hostonly") = <<"1">>

PropagateStep == pc = "resolved" /\ pc' = "propagated"

\* C6: propagation clears allow (the store's value and the parsed rule-set)
\* if and only if hostonly is enabled and gateway is disabled or allow is
\* still "*.*.*.*" or "0.0.0.0/0"; in every other case it leaves both as
\* they were.
C6_AllowCleared ==
    [][PropagateStep =>
        IF HostonlyOn /\ (~GatewayOn \/ Store("allow") \in {S_allow_glob, S_allow_cidr})
        THEN Store("allow")' = <<>> /\ state'.allow = {}
        ELSE Store("allow")' = Store("allow") /\ state'.allow = state.allow]_vars

\* hostonly with gateway and a narrow allow rule, propagated: the rule
\* stands, in the store and in the rule-set.
C6_Witness ==
    /\ pc = "propagated"
    /\ HostonlyOn /\ GatewayOn
    /\ Store("allow") = S_narrow
    /\ state.allow = {S_narrow}

\* C7: after propagation listen is all interfaces, [""] in the State and ""
\* in the store, whenever gateway or hostonly is enabled, whatever listen
\* was given; with neither enabled propagation leaves listen as resolved.
C7_ListenAll ==
    [][/\ PropagateStep =>
            IF GatewayOn \/ HostonlyOn
            THEN state'.listen = << <<>> >> /\ Store("listen")' = <<>>
            ELSE state'.listen = state.listen /\ Store("listen")' = Store("listen")
       /\ (pc' \in {"propagated", "saved", "done"} /\ (GatewayOn' \/ HostonlyOn')) =>
            state'.listen = << <<>> >> /\ Store("listen")' = <<>>]_vars

\* gateway enabled and a listen address given on the command line:
\* propagated, listen is all interfaces.
C7_Witness ==
    /\ pc = "propagated"
    /\ GatewayOn
    /\ CliGiven("listen") /\ CliValue("listen") = <<"b">>
    /\ state.listen = << <<>> >>
    /\ Store("listen") = <<>>

(***************************************************************************)
(* The refresh of the auto-detected proxy source                            *)
(***************************************************************************)

\* The refresh interval is a number of seconds.
Timed == state.proxyreload.t = "int"

\* The time elapsed since the last resolution, by the clock as it reads now.
Elapsed == clock - state.proxy_last_reload

\* A call checking now finds less than the interval elapsed.
Throttled ==
    state.proxy_last_reload # NoTime /\ Timed /\ Elapsed < state.proxyreload.n

\* A call checking now finds the interval elapsed, or no timestamp.
Due ==
    state.proxy_last_reload = NoTime \/ (Timed /\ Elapsed >= state.proxyreload.n)

\* Thread t leaves position p in this step.
Leaves(t, p) == tpc[t] = p /\ tpc'[t] # p

\* The source and the timestamp are as they were.
SourceKept ==
    /\ state'.wproxy = state.wproxy
    /\ state'.proxy_last_reload = state.proxy_last_reload

\* C8: in auto-detect mode, whatever the interleaving of the threads, a call
\* that finds less than proxyreload seconds elapsed since the last resolution
\* skips: its check and the rest of the call leave the proxy source and the
\* timestamp as they are, so calls within one interval see one timestamp; and
\* a re-resolution happens, and is stamped, no sooner than one interval after
\* the resolution before it.
C8_Throttle ==
    [][pc = "done" =>
        /\ \A t \in Threads :
            /\ (Leaves(t, "check") /\ Throttled) => (tpc'[t] = "skipped" /\ SourceKept)
            /\ tpc[t] = "skipped" => SourceKept
        /\ (Timed /\ state'.wproxy # state.wproxy) =>
                Elapsed >= state.proxyreload.n
        /\ (Timed /\ state'.proxy_last_reload # state.proxy_last_reload) =>
                state'.proxy_last_reload - state.proxy_last_reload >= state.proxyreload.n]_vars

\* A call is throttled while the other thread waits for the lock, after a
\* re-resolution has happened.
C8_Witness ==
    /\ pc = "done"
    /\ reloads >= 1
    /\ state.proxyreload = IntV(2)
    /\ tpc[1] = "skipped"
    /\ tpc[2] = "acquire"

\* C9 as stated: a call that finds the interval elapsed performs the
\* detection, the detection that returns replaces the source by a new one,
\* the stamp is strictly greater than the timestamp before it, and the
\* timestamp never decreases.
C9_StrictlyGreater ==
    [][pc = "done" =>
        /\ \A t \in Threads :
            /\ (Leaves(t, "check") /\ Due) => tpc'[t] = "reload"
            /\ (tpc[t] = "reload" /\ tpc'[t] = "stamp") =>
                    (state'.wproxy # state.wproxy /\ state'.wproxy.mode = MODE_AUTO)
            /\ (tpc[t] = "stamp" /\ tpc'[t] = "stamped") =>
                    state'.proxy_last_reload > state.proxy_last_reload
        /\ state'.proxy_last_reload >= state.proxy_last_reload]_vars

\* C9, amended: a call that finds the interval elapsed performs the
\* detection, the detection that returns replaces the source by a new one,
\* the stamp is not less than the timestamp before it and strictly greater
\* when the interval is positive, and the timestamp never decreases.
C9_GreaterWhenPositive ==
    [][pc = "done" =>
        /\ \A t \in Threads :
            /\ (Leaves(t, "check") /\ Due) => tpc'[t] = "reload"
            /\ (tpc[t] = "reload" /\ tpc'[t] = "stamp") =>
                    (state'.wproxy # state.wproxy /\ state'.wproxy.mode = MODE_AUTO)
            /\ (tpc[t] = "stamp" /\ tpc'[t] = "stamped") =>
                    /\ state'.proxy_last_reload >= state.proxy_last_reload
                    /\ (Timed /\ state.proxyreload.n > 0) =>
                            state'.proxy_last_reload > state.proxy_last_reload
        /\ state'.proxy_last_reload >= state.proxy_last_reload]_vars

\* A call made two ticks after startup, the interval, has replaced the
\* source and stamped it.
C9_Witness ==
    /\ pc = "done"
    /\ state.proxyreload = IntV(2)
    /\ \E t \in Threads : tpc[t] = "stamped"
    /\ state.wproxy = Wproxy(MODE_AUTO, 1)
    /\ state.proxy_last_reload >= 2

\* C10: once startup has chosen explicit servers or a PAC source, no step of
\* any thread's reload_proxy changes the source object, its mode or the
\* absent timestamp; once it has chosen auto-detect, the source stays an
\* auto-detect source through every replacement.
C10_VariantStable ==
    [][pc = "done" =>
        IF in_config(state)
        THEN /\ state.proxy_last_reload = NoTime
             /\ SourceKept
        ELSE /\ state.wproxy.mode = MODE_AUTO
             /\ state'.wproxy.mode = MODE_AUTO]_vars

\* Both threads have called reload_proxy on a source of explicit servers.
C10_Witness ==
    /\ pc = "done"
    /\ state.wproxy.mode = MODE_CONFIG
    /\ \A t \in Threads : tpc[t] = "returned"

(***************************************************************************)
(* The proxy source chosen at startup                                       *)
(***************************************************************************)

\* C11: at the end of parse_config the source is one of explicit servers
\* when the resolved server value names a server; otherwise a PAC source
\* exactly when the pac value of the store, the one that won precedence, is
\* not empty; otherwise an auto-detected one, with its timestamp set.
C11_SourceFollowsStore ==
    pc = "done" =>
        /\ state.wproxy.mode =
            IF Len(parse_proxy(Store("server"))) # 0 THEN MODE_CONFIG
            ELSE IF Store("pac") # <<>> THEN MODE_CONFIG_PAC
            ELSE MODE_AUTO
        /\ state.wproxy.mode = MODE_AUTO => state.proxy_last_reload # NoTime

(***************************************************************************)
(* The logger                                                               *)
(***************************************************************************)

\* The location code a log value stands for: a value that is no integer
\* names no destination.
LogCode(v) == IF int_ok(v) THEN int_val(v) ELSE LOG_NONE

\* A location code with a destination.
Attaches(c) == c \in {LOG_SCRIPTDIR, LOG_CWD, LOG_UNIQLOG, LOG_STDOUT}

\* The code --debug, --uniqlog or --verbose asks for, in that priority.
EarlyCode ==
    IF in_argv(sys_argv, "debug") THEN LOG_SCRIPTDIR
    ELSE IF in_argv(sys_argv, "uniqlog") THEN LOG_UNIQLOG
    ELSE IF in_argv(sys_argv, "verbose") THEN LOG_STDOUT
    ELSE LOG_NONE

\* The location codes of the set_debug calls of one parse_config, in the
\* order of the calls: the flag's, the log key's in the defaults pass (the
\* code recorded by then), the environment's and the command line's.
DebugCalls ==
    <<EarlyCode, EarlyCode>>
        \o (IF EnvGiven("log") THEN <<LogCode(EnvValue("log"))>> ELSE <<>>)
        \o (IF CliGiven("log") THEN <<LogCode(CliValue("log"))>> ELSE <<>>)

\* The code of the first call of a sequence that has a destination.
FirstAttaching(codes) ==
    IF \E i \in 1..Len(codes) : Attaches(codes[i])
    THEN codes[CHOOSE i \in 1..Len(codes) :
                /\ Attaches(codes[i])
                /\ \A j \in 1..(i - 1) : ~Attaches(codes[j])]
    ELSE LOG_NONE

\* C12: over the set_debug calls of parse_config, the handle attached and
\* the recorded location code are those of the first call whose code has a
\* destination; no later call replaces them, and calls without destination
\* attach nothing and leave a later call free to attach.
C12_FirstWriterWins ==
    pc = "resolved" =>
        /\ state.location = FirstAttaching(DebugCalls)
        /\ state.debug = get_logfile(IntV(FirstAttaching(DebugCalls)))

\* --verbose attached stdout, and the later --log=1 did not replace it.
C12_Witness ==
    /\ pc = "resolved"
    /\ state.location = LOG_STDOUT
    /\ state.debug = "stdout"
    /\ CliGiven("log")
    /\ LogCode(CliValue("log")) = LOG_SCRIPTDIR

(***************************************************************************)
(* The listen addresses                                                     *)
(***************************************************************************)

\* The comma-separated parts of the resolved listen value.
ListenParts == split(Store("listen"), ",")

\* The place of the first part that, trimmed, is the entry e.
FirstPart(e) ==
    CHOOSE i \in 1..Len(ListenParts) :
        /\ strip(ListenParts[i]) = e
        /\ \A j \in 1..(i - 1) : strip(ListenParts[j]) # e

\* C13: after the passes State.listen is a function of the resolved listen
\* value alone: the loopback address for the empty string; else the trimmed
\* non-empty parts, each once, in the order of their first occurrence,
\* whatever list an earlier set_listen call of a lower pass left.
C13_ListenList ==
    pc = "resolved" =>
        LET L == state.listen
        IN  IF Store("listen") = <<>> THEN L = <<S_loopback>>
            ELSE /\ \A i \in 1..Len(L) :
                        /\ L[i] # <<>>
                        /\ \E j \in 1..Len(ListenParts) : strip(ListenParts[j]) = L[i]
                 /\ \A j \in 1..Len(ListenParts) :
                        strip(ListenParts[j]) # <<>> =>
                            \E i \in 1..Len(L) : L[i] = strip(ListenParts[j])
                 /\ \A i, j \in 1..Len(L) : i < j =>
                        /\ L[i] # L[j]
                        /\ FirstPart(L[i]) < FirstPart(L[j])

\* "a, a,b" from the command line over another list from the environment.
C13_Witness ==
    /\ pc = "resolved"
    /\ EnvGiven("listen")
    /\ EnvValue("listen") = <<"a">>
    /\ Store("listen") = <<"a", ",", " ", "a", ",", "b">>
    /\ state.listen = << <<"a">>, <<"b">> >>

(***************************************************************************)
(* The typed values                                                         *)
(***************************************************************************)

\* C17: for every integer key the store holds a parseable integer, for
\* socktimeout a parseable float, and the values the callbacks were passed
\* (those set_idle, set_proxyreload and set_socktimeout kept) are of the
\* declared type, whatever the file, the environment and the command line
\* hold for the key.
C17_TypedValues ==
    pc \in {"resolved", "exited"} =>
        /\ \A k \in ProxyIntKeys \cup SettingsIntKeys :
                k \in DOMAIN state.config[SectionOf(k)] => int_ok(Store(k))
        /\ \A k \in SettingsFloatKeys :
                k \in DOMAIN state.config[SectionOf(k)] => float_ok(Store(k))
        /\ state.idle.t = "int"
        /\ state.proxyreload.t = "int"
        /\ state.socktimeout.t = "float"

(***************************************************************************)
(* quit                                                                     *)
(***************************************************************************)

\* No other instance of px is running.
NoSiblingRunning == \A p \in Pids \ {Me} : ~(procs[p].alive /\ procs[p].px)

\* C14: at the moment quit(checkOnly = False, exit = False) returns, its
\* result is True exactly when no other instance is running; and --restart
\* goes on to the normal startup exactly when the result is True.
C14_ReturnsQuiescence ==
    /\ (quit_call.pc = "end" /\ ~quit_call.exit) => (quit_call.ret <=> NoSiblingRunning)
    /\ pc = "restarting" => (quit_call.pc = "returned" /\ quit_call.ret)
    /\ (pc = "exited" /\ quit_call.pc = "returned" /\ ~quit_call.exit) => ~quit_call.ret

\* The kills of the step: what the step added to those sent so far.
NewKills == SubSeq(quit_call'.kills, Len(quit_call.kills) + 1, Len(quit_call'.kills))

\* The step examines a process and finds it an instance of px.
Identifies == pc = "quit" /\ quit_call.pc = "scan" /\ quit_call'.count = quit_call.count + 1

\* C15: a process found to be an instance is itself sent a kill, after a
\* kill has been sent to every process of its subtree, also when one of
\* them vanishes or denies access.  Stated for the instances whose subtree
\* does not hold the caller.
C15_SubtreeThenSibling ==
    [][(Identifies /\ Me \notin subtree(procs, {Head(quit_call.todo)})) =>
        /\ {NewKills[i] : i \in 1..Len(NewKills)} = subtree(procs, {Head(quit_call.todo)})
        /\ NewKills[Len(NewKills)] = Head(quit_call.todo)]_vars

\* The step is one iteration of the loop of quit.
Examines == pc = "quit" /\ quit_call.pc = "scan" /\ quit_call.todo # <<>>

\* C16: an error raised for one pid, swallowed or reported, leaves the loop
\* at the next pid; the loop takes the pids highest first, one per
\* iteration, passes over the caller's and its parent's without touching a
\* process, and ends only when no pid is left or the caller is killed.
C16_ErrorIsolation ==
    [][/\ (Examines /\ quit_call'.err # "none") =>
            (quit_call'.pc = "scan" /\ quit_call'.todo = Tail(quit_call.todo))
       /\ (Examines /\ quit_call'.pc = "scan") => quit_call'.todo = Tail(quit_call.todo)
       /\ (Examines /\ Head(quit_call.todo) \in mypids(procs)) =>
            (procs' = procs /\ quit_call'.count = quit_call.count)
       /\ (quit_call.pc = "scan" /\ quit_call'.pc \in {"sleep", "end"}) =>
            quit_call.todo = <<>>
       /\ quit_call'.pc = "scan" =>
            \A i, j \in 1..Len(quit_call'.todo) :
                i < j => quit_call'.todo[i] > quit_call'.todo[j]]_vars

\* The kill of an instance has raised, and the loop is at the pids left.
C16_Witness ==
    /\ pc = "quit"
    /\ quit_call.pc = "scan"
    /\ quit_call.err = "reported"
    /\ quit_call.count = 1
    /\ quit_call.kills = <<>>
    /\ Len(quit_call.todo) = 2

\* C18: quit makes at most two loops over the processes, the second one in
\* check-only mode and only after the first has found an instance and has
\* slept; a check-only loop is followed by no sleep; and every call of quit
\* ends, by sys.exit() when exit is true, by returning otherwise (or by the
\* caller's own death), also when instances are started again meanwhile.
C18_BoundedRetry ==
    /\ [](/\ quit_call.scans <= 2
          /\ quit_call.scans = 2 => quit_call.checkOnly
          /\ quit_call.pc = "sleep" =>
                (~quit_call.checkOnly /\ quit_call.scans = 1 /\ quit_call.count # 0)
          /\ (quit_call.pc = "returned" /\ quit_call.exit) => pc = "exited")
    /\ (quit_call.pc = "scan") ~> (quit_call.pc \in {"returned", "dead"})

\* The confirming loop found an instance again, and quit has returned.
C18_Witness ==
    /\ quit_call.pc = "returned"
    /\ quit_call.scans = 2
    /\ ~quit_call.ret
    /\ ~NoSiblingRunning
    /\ Len(quit_call.kills) >= 2

(***************************************************************************)
(* The state lock                                                           *)
(***************************************************************************)

\* Thread t is between the refresh-needed check and the release of the lock.
Critical(t) == tpc[t] \in {"check", "reload", "stamp", "skipped", "stamped", "failed"}

\* C19: whatever the number of threads calling reload_proxy, at most one
\* of them at a time is between the check and the update of the timestamp,
\* and that one holds the lock: the check and the update of one call are
\* not interleaved with those of another.
C19_OneAtATime ==
    /\ \A t1, t2 \in Threads : (Critical(t1) /\ Critical(t2)) => t1 = t2
    /\ \A t \in Threads : Critical(t) => state_lock = t

\* One thread is asking the OS while the other waits for the lock.
C19_Witness ==
    /\ pc = "done"
    /\ tpc[1] = "reload"
    /\ tpc[2] = "acquire"
    /\ state_lock = 1

\* C20: the lock is free whenever no thread is between acquire and
\* release; a call that fails, in the detection or in the check, leaves the
\* proxy source and the timestamp as they were; and under fair scheduling
\* every thread waiting for the lock returns from reload_proxy.
C20_ReleaseAndProgress ==
    /\ []((\A t \in Threads : ~Critical(t)) => state_lock = 0)
    /\ [][\A t \in Threads :
            (tpc'[t] = "failed" \/ tpc[t] = "failed") => SourceKept]_vars
    /\ \A t \in Threads : (tpc[t] = "acquire") ~> (tpc[t] = "returned")

\* The detection of one thread has raised, the lock still held, while the
\* other thread waits for it.
C20_Witness ==
    /\ pc = "done"
    /\ state.proxyreload = IntV(2)
    /\ tpc[1] = "failed"
    /\ state_lock = 1
    /\ tpc[2] = "acquire"

(***************************************************************************)
(* --verbose                                                                *)
(***************************************************************************)

\* C21: with --verbose on the command line the store's foreground is 1
\* after the passes and to the end of parse_config, whatever other flags,
\* --debug, --uniqlog and --foreground=0 among them, and whatever the file
\* and the environment hold.
C21_VerboseForeground ==
    (pc \in {"resolved", "propagated", "done"} /\ in_argv(sys_argv, "verbose")) =>
        Store("foreground") = <<"1">>


\* C22: quit never sends a kill to the caller's own process or to the
\* caller's parent, in any process tree, an ancestor of the caller that is
\* itself a px instance (and has its recursive children killed) included.
C22_SparesOwnAndParent ==
    \A i \in 1..Len(quit_call.kills) : quit_call.kills[i] \notin mypids(procs)

====
